---- MODULE Spec2Model ----
(***************************************************************************)
(* Model of the benchmarking harness of amd-strix-halo-comfyui-toolboxes:  *)
(*   scripts/benchmark_workflows.py  (queue_prompt, track_execution,       *)
(*                                    benchmark_workflow, wait_for_server, *)
(*                                    main)                                *)
(*   scripts/collect_perf_logs.py    (main)                                *)
(*                                                                         *)
(* Two specifications are given.                                           *)
(*   SpecTracker  one call of benchmark_workflow, or of track_execution,   *)
(*                reading a stream of websocket frames drawn in Init.      *)
(*   Spec         the two orchestrators (the main of either script), run   *)
(*                up to MaxRuns times over the same result file, with the  *)
(*                orchestrator process liable to be killed at any point.   *)
(* The pure operators that translate the code are shared by both.          *)
(***************************************************************************)
EXTENDS Integers, Sequences, FiniteSets, TLC

\* Bounds of the model.
MaxClock == 2     \* time.time() ranges over 1..MaxClock
MaxEvents == 3    \* longest frame stream a tracker is fed
MaxRuns == 2      \* invocations of an orchestrator on the same result file

VARIABLES
    clock,          \* time.time(): epoch seconds, positive, never decreasing
    bw,             \* locals of the running benchmark_workflow call
    fn, stream, pos, te,                         \* tracker harness
    sd,             \* the workflow document of a benchmark_workflow call
    prog, args, pc, ci, fi, results, file,       \* orchestrator
    process, log_file, after, duration_cold, duration_warm,
    run, prevEnd, fileAtStart, started, posts, saved, durable,
    net,            \* client ids drawn and channels open in this process
    results_type,   \* what line 184 left in results: a list of records or not
    write_errors    \* writes of the result file that failed in this run

trackVars == <<fn, stream, pos, te, sd>>
orchVars == <<prog, args, pc, ci, fi, results, file, process, log_file, after,
              duration_cold, duration_warm, run, prevEnd, fileAtStart,
              started, posts, saved, durable, results_type, write_errors>>
vars == <<clock, bw, trackVars, orchVars, net>>

(***************************************************************************)
(* Python values.                                                          *)
(***************************************************************************)
\* An optional number: None, or a float.
None == [some |-> FALSE, v |-> 0]
Some(x) == [some |-> TRUE, v |-> x]
\* Python truthiness of an optional number: None and 0 are falsy.
Truthy(x) == x.some /\ x.v # 0
\* `x if x else 0`
OrZero(x) == IF Truthy(x) THEN x.v ELSE 0

(***************************************************************************)
(* Websocket frames: what one ws.recv() yields.                            *)
(*   kind "text"    a JSON text frame {type, data: {node, prompt_id}}      *)
(*   kind "binary"  a non-str frame (skipped by isinstance(out, str))      *)
(*   kind "error"   recv raises (disconnect), or the frame does not decode *)
(***************************************************************************)
Null == "null"
Tracked == "p1"     \* the prompt_id the server returned for the submitted job
Foreign == "p2"     \* a job of another client of the server
Msg(t, n, p) == [kind |-> "text", type |-> t, node |-> n, prompt_id |-> p]
BinaryFrame == [kind |-> "binary", type |-> "-", node |-> "-", prompt_id |-> "-"]
RecvError == [kind |-> "error", type |-> "-", node |-> "-", prompt_id |-> "-"]
Frames ==
    {Msg("executing", n, p) : n \in {Null, "n1"}, p \in {Tracked, Foreign}}
    \cup {Msg(t, Null, p) : t \in {"execution_start", "execution_error"},
                            p \in {Tracked, Foreign}}
    \cup {Msg("status", Null, Tracked), BinaryFrame, RecvError}

(***************************************************************************)
(* benchmark_workflow (benchmark_workflows.py 65-137).                     *)
(* pc: load -> connect -> submit -> posting -> recv -> returned | raised.  *)
(* submitted_at is a history field: the clock when the POST was sent.      *)
(***************************************************************************)
bw_init ==
    [pc |-> "load", ws |-> "new", client_id |-> 0, posts |-> 0,
     submitted_at |-> 0, prompt_id |-> "-", wall_start |-> 0, wall_end |-> 0,
     execution_complete |-> FALSE, error |-> FALSE, ret |-> None]

\* Lines 66-83: open and parse the workflow file (raises when that fails; the
\* exception leaves benchmark_workflow), randomize the seeds.
bw_load(b, ok) ==
    IF ok THEN [b EXCEPT !.pc = "connect"] ELSE [b EXCEPT !.pc = "raised"]

\* Line 86: client_id = str(uuid.uuid4()), an identifier no earlier call of
\* the process has drawn: the n-th draw is written n.
uuid4(n) == n + 1
bw_client_id(b, id) == [b EXCEPT !.client_id = id]

bw_connect_fallthrough(b, ok) ==
    IF ok THEN [b EXCEPT !.ws = "open", !.pc = "submit"]
          ELSE [b EXCEPT !.ws = "failed", !.pc = "submit"]

\* Lines 85-92: connect the websocket; on failure return None.
bw_connect(b, ok) ==
    IF ok THEN [b EXCEPT !.ws = "open", !.pc = "submit"]
          ELSE [b EXCEPT !.ws = "failed", !.ret = None, !.pc = "returned"]

\* Lines 95-96 and queue_prompt 21-25: the POST is sent.
bw_submit_begin(b, now) ==
    [b EXCEPT !.posts = @ + 1, !.submitted_at = now, !.pc = "posting"]

bw_submit_end_retry(b, ok, now) ==
    IF ok THEN [b EXCEPT !.prompt_id = Tracked, !.wall_start = now,
                         !.execution_complete = FALSE, !.error = FALSE,
                         !.pc = "recv"]
          ELSE [b EXCEPT !.pc = "submit"]

\* Lines 96-108: the POST answers. A failure (HTTP error, unparsable body, no
\* prompt_id) closes the channel and returns None; otherwise the clock is read
\* into wall_start, after the call has returned.
bw_submit_end(b, ok, now) ==
    IF ok THEN [b EXCEPT !.prompt_id = Tracked, !.wall_start = now,
                         !.execution_complete = FALSE, !.error = FALSE,
                         !.pc = "recv"]
          ELSE [b EXCEPT !.ws = "closed", !.ret = None, !.pc = "returned"]

on_message_nofilter(b, m) ==
    IF m.type = "executing"
    THEN IF m.node = Null
         THEN [b EXCEPT !.execution_complete = TRUE] ELSE b
    ELSE IF m.type = "execution_error"
    THEN IF m.prompt_id = b.prompt_id
         THEN [b EXCEPT !.error = TRUE, !.execution_complete = TRUE] ELSE b
    ELSE b

on_message_error_continues(b, m) ==
    IF m.type = "executing"
    THEN IF m.node = Null /\ m.prompt_id = b.prompt_id
         THEN [b EXCEPT !.execution_complete = TRUE] ELSE b
    ELSE IF m.type = "execution_error"
    THEN IF m.prompt_id = b.prompt_id
         THEN [b EXCEPT !.error = TRUE] ELSE b
    ELSE b

\* Lines 114-122: one decoded message in the receive loop.
on_message(b, m) ==
    IF m.type = "executing"
    THEN IF m.node = Null /\ m.prompt_id = b.prompt_id
         THEN [b EXCEPT !.execution_complete = TRUE] ELSE b
    ELSE IF m.type = "execution_error"
    THEN IF m.prompt_id = b.prompt_id
         THEN [b EXCEPT !.error = TRUE, !.execution_complete = TRUE] ELSE b
    ELSE b

bw_finish_reversed(b, now) ==
    [b EXCEPT !.wall_end = now, !.ws = "closed",
              !.ret = IF b.error THEN None ELSE Some(b.wall_start - now),
              !.pc = "returned"]

bw_finish_noclose(b, now) ==
    [b EXCEPT !.wall_end = now,
              !.ret = IF b.error THEN None ELSE Some(now - b.wall_start),
              !.pc = "returned"]

\* Lines 128-137: after the loop, read the clock, close the channel, return.
bw_finish(b, now) ==
    [b EXCEPT !.wall_end = now, !.ws = "closed",
              !.ret = IF b.error THEN None ELSE Some(now - b.wall_start),
              !.pc = "returned"]

\* Lines 110-137: one ws.recv() of the receive loop, and the return when the
\* loop is left (execution_complete, or break on an exception).
bw_recv(b, f, now) ==
    LET b1 == IF f.kind = "error" THEN [b EXCEPT !.error = TRUE]
              ELSE IF f.kind = "text" THEN on_message(b, f)
              ELSE b
    IN  IF f.kind = "error" \/ b1.execution_complete
        THEN bw_finish(b1, now)
        ELSE b1

\* History of the channels of the process: how many client ids were drawn,
\* and the client ids of the channels connected and not closed. b, b2: the
\* call before and after one of its steps.
net_init == [uuids |-> 0, open |-> {}]
net_step(n, b, b2) ==
    [uuids |-> IF b.pc = "connect" /\ b2.pc # "connect"
               THEN n.uuids + 1 ELSE n.uuids,
     open |-> IF b2.ws = "open" THEN n.open \cup {b2.client_id}
              ELSE IF b2.ws = "closed" THEN n.open \ {b2.client_id}
              ELSE n.open]

(***************************************************************************)
(* track_execution (benchmark_workflows.py 31-63).                         *)
(***************************************************************************)
te_init ==
    [pc |-> "recv", start_time |-> None, end_time |-> None, ret |-> None]

\* Lines 61-63.
te_return(t) ==
    [t EXCEPT !.pc = "returned",
              !.ret = IF Truthy(t.start_time) /\ Truthy(t.end_time)
                      THEN Some(t.end_time.v - t.start_time.v)
                      ELSE Some(0)]

\* Lines 39-63: one ws.recv() of the loop. No exception is caught here: a
\* failing recv or an undecodable frame propagates to the caller.
track_execution(t, f, prompt_id, now) ==
    IF f.kind = "error" THEN [t EXCEPT !.pc = "raised"]
    ELSE IF f.kind # "text" THEN t
    ELSE IF f.type = "executing"
    THEN IF f.node = Null /\ f.prompt_id = prompt_id
         THEN te_return([t EXCEPT !.end_time = Some(now)])
         ELSE IF f.prompt_id = prompt_id /\ ~t.start_time.some
         THEN [t EXCEPT !.start_time = Some(now)]
         ELSE t
    ELSE IF f.type = "execution_start"
    THEN IF f.prompt_id = prompt_id
         THEN [t EXCEPT !.start_time = Some(now)] ELSE t
    ELSE IF f.type = "execution_error"
    THEN IF f.prompt_id = prompt_id
         THEN [t EXCEPT !.ret = None, !.pc = "returned"] ELSE t
    ELSE t

(***************************************************************************)
(* The workflow document and its seeds (benchmark_workflow 66-83, 96).     *)
(* A document maps node ids to nodes; a node has a class_type and may have *)
(* an inputs mapping. A value is an integer, written hi * Base + lo so     *)
(* that 10^14 fits, or a link to the output of another node.               *)
(***************************************************************************)
Base == 10000000
IntVal(h, l) == [kind |-> "int", hi |-> h, lo |-> l]
LinkVal == [kind |-> "link", hi |-> 0, lo |-> 0]

\* Line 77: random.randint(1, 100000000000000) draws from 1..10^14, both
\* ends included: the least, the greatest and one value in between.
randint == {IntVal(0, 1), IntVal(1234567, 890), IntVal(Base, 0)}

NodeIds == {"3", "4"}
InputKeys == {"seed", "noise_seed", "steps"}
SeedKeys == {"seed", "noise_seed"}
Values == {IntVal(0, 7), LinkVal}
Nodes ==
    [class_type : {"KSampler", "SaveImage"}, has_inputs : {FALSE},
     inputs : {<<>>}]
    \cup [class_type : {"KSampler", "SaveImage"}, has_inputs : {TRUE},
          inputs : UNION {[K -> Values] : K \in SUBSET InputKeys}]
Documents == UNION {[N -> Nodes] : N \in SUBSET NodeIds}

\* The occurrences the loop of lines 73-79 visits, and a draw for each.
Draws == [NodeIds \X SeedKeys -> randint]

randomize_seeds_seed_only(d, rnd) ==
    [n \in DOMAIN d |->
        IF d[n].has_inputs
        THEN [d[n] EXCEPT !.inputs =
                 [k \in DOMAIN @ |->
                     IF k = "seed" THEN rnd[<<n, k>>] ELSE @[k]]]
        ELSE d[n]]

\* Lines 73-79: for every node with inputs, and for seed and noise_seed when
\* present among them, node["inputs"][key] = new_seed.
randomize_seeds(d, rnd) ==
    [n \in DOMAIN d |->
        IF d[n].has_inputs
        THEN [d[n] EXCEPT !.inputs =
                 [k \in DOMAIN @ |->
                     IF k \in SeedKeys THEN rnd[<<n, k>>] ELSE @[k]]]
        ELSE d[n]]

sd_idle ==
    [pc |-> "-", randomize_seed |-> FALSE, workflow_file |-> <<>>,
     prompt_workflow |-> <<>>, posted |-> <<>>]

\* Lines 66-68: json.load of the workflow file.
sd_load(doc, randomize) ==
    [pc |-> "loaded", randomize_seed |-> randomize, workflow_file |-> doc,
     prompt_workflow |-> doc, posted |-> <<>>]

\* Lines 70-83.
sd_randomize(s, rnd) ==
    [s EXCEPT !.prompt_workflow =
                  IF s.randomize_seed THEN randomize_seeds(@, rnd) ELSE @,
              !.pc = "submit"]

\* Lines 96 and 22: the document goes into the body of the POST.
sd_post(s) == [s EXCEPT !.posted = s.prompt_workflow, !.pc = "posted"]

(***************************************************************************)
(* Initial values of the orchestrator's state, and of the tracker harness. *)
(***************************************************************************)
NoFile == [state |-> "missing", recs |-> <<>>]
NoProcess == [state |-> "none", terminate_calls |-> 0]
NoArgs == [skip_errors |-> FALSE, warm_start |-> FALSE]

OrchIdle ==
    /\ args = NoArgs /\ pc = "idle" /\ ci = 1 /\ fi = 1 /\ results = <<>>
    /\ process = NoProcess /\ log_file = "none" /\ after = "-"
    /\ duration_cold = None /\ duration_warm = None
    /\ run = 0 /\ prevEnd = "-" /\ started = 0 /\ posts = 0
    /\ saved = "none" /\ durable = <<>>
    /\ results_type = "list" /\ write_errors = 0

TrackIdle ==
    fn = "-" /\ stream = <<>> /\ pos = 0 /\ te = te_init /\ sd = sd_idle

Streams == UNION {[1..n -> Frames] : n \in 0..MaxEvents}

(***************************************************************************)
(* SpecTracker: one tracker call fed a frame stream.                       *)
(***************************************************************************)
InitTracker ==
    /\ clock = 1 /\ bw = bw_init
    /\ fn \in {"benchmark_workflow", "track_execution"}
    /\ stream \in Streams /\ pos = 0 /\ te = te_init /\ sd = sd_idle
    /\ net = net_init
    /\ prog = "-" /\ file = NoFile /\ fileAtStart = NoFile /\ OrchIdle

\* benchmark_workflow is executing: called from the harness or from a main.
InCall == fn = "benchmark_workflow" \/ pc \in {"cold", "warm", "run"}

\* Time passes while the caller is blocked in the POST or in ws.recv().
Tick ==
    /\ clock < MaxClock
    /\ \/ InCall /\ bw.pc \in {"posting", "recv"}
       \/ fn = "track_execution" /\ te.pc = "recv"
    /\ clock' = clock + 1
    /\ UNCHANGED <<bw, trackVars, orchVars, net>>

BwLoad ==
    /\ InCall /\ bw.pc = "load"
    /\ \E ok \in BOOLEAN : bw' = bw_load(bw, ok)
    /\ UNCHANGED <<clock, trackVars, orchVars, net>>

BwConnect ==
    /\ InCall /\ bw.pc = "connect"
    /\ \E ok \in BOOLEAN :
          bw' = bw_connect(bw_client_id(bw, uuid4(net.uuids)), ok)
    /\ net' = net_step(net, bw, bw')
    /\ UNCHANGED <<clock, trackVars, orchVars>>

BwSubmitEnd ==
    /\ InCall /\ bw.pc = "posting"
    /\ \E ok \in BOOLEAN : bw' = bw_submit_end(bw, ok, clock)
    /\ net' = net_step(net, bw, bw')
    /\ UNCHANGED <<clock, trackVars, orchVars>>

T_SubmitBegin ==
    /\ fn = "benchmark_workflow" /\ bw.pc = "submit"
    /\ bw' = bw_submit_begin(bw, clock)
    /\ UNCHANGED <<clock, trackVars, orchVars, net>>

\* The harness hands the next frame of the stream to the blocked ws.recv().
T_Recv ==
    /\ fn = "benchmark_workflow" /\ bw.pc = "recv" /\ pos < Len(stream)
    /\ bw' = bw_recv(bw, stream[pos + 1], clock)
    /\ pos' = pos + 1
    /\ net' = net_step(net, bw, bw')
    /\ UNCHANGED <<clock, fn, stream, te, sd, orchVars>>

TE_Recv ==
    /\ fn = "track_execution" /\ te.pc = "recv" /\ pos < Len(stream)
    /\ te' = track_execution(te, stream[pos + 1], Tracked, clock)
    /\ pos' = pos + 1
    /\ UNCHANGED <<clock, bw, fn, stream, sd, orchVars, net>>

\* SpecSeed: one benchmark_workflow call up to its POST, on any document.
InitSeed ==
    /\ clock = 1 /\ bw = bw_init
    /\ fn = "seed" /\ stream = <<>> /\ pos = 0 /\ te = te_init
    /\ \E doc \in Documents, randomize \in BOOLEAN :
          sd = sd_load(doc, randomize)
    /\ net = net_init
    /\ prog = "-" /\ file = NoFile /\ fileAtStart = NoFile /\ OrchIdle

SeedRandomize ==
    /\ fn = "seed" /\ sd.pc = "loaded"
    /\ \E rnd \in Draws : sd' = sd_randomize(sd, rnd)
    /\ UNCHANGED <<clock, bw, fn, stream, pos, te, orchVars, net>>

SeedPost ==
    /\ fn = "seed" /\ sd.pc = "submit"
    /\ sd' = sd_post(sd)
    /\ UNCHANGED <<clock, bw, fn, stream, pos, te, orchVars, net>>

NextSeed == SeedRandomize \/ SeedPost

SpecSeed == InitSeed /\ [][NextSeed]_vars

NextTracker ==
    \/ Tick \/ BwLoad \/ BwConnect \/ T_SubmitBegin \/ BwSubmitEnd
    \/ T_Recv \/ TE_Recv

SpecTracker == InitTracker /\ [][NextTracker]_vars

(***************************************************************************)
(* Tracker claims.                                                         *)
(***************************************************************************)
IsDone(f) == f = Msg("executing", Null, Tracked)
IsErr(f) == f = Msg("execution_error", Null, Tracked)
\* A frame of another job, or of a type neither loop lists.
Ignorable(f) ==
    /\ f.kind = "text"
    /\ \/ f.prompt_id # Tracked
       \/ f.type \notin {"executing", "execution_start", "execution_error"}
BwState(b) ==
    IF b.error THEN "FAILED"
    ELSE IF b.execution_complete THEN "DONE" ELSE "WAITING"

\* C6 as stated: whenever the stream holds a completion event of the tracked
\* job (and no receive ever fails), a benchmark_workflow call that got as
\* far as tracking returns in DONE with a duration >= 0.
OrigC6 ==
    (/\ fn = "benchmark_workflow" /\ bw.pc = "returned"
     /\ bw.prompt_id = Tracked
     /\ \E k \in 1..Len(stream) : IsDone(stream[k])
     /\ \A k \in 1..Len(stream) : stream[k].kind # "error")
    => (BwState(bw) = "DONE" /\ bw.ret.some /\ bw.ret.v >= 0)

\* C6 amended: when the completion event of the tracked job comes before any
\* execution_error of the tracked job and before any failing receive, the
\* primary tracker reads no frame past it, and on reading it returns in DONE
\* with a duration that is not None and is >= 0.
ThmC6 ==
    fn = "benchmark_workflow" =>
    \A k \in 1..Len(stream) :
        (/\ IsDone(stream[k])
         /\ \A j \in 1..(k - 1) :
               ~IsErr(stream[j]) /\ stream[j].kind # "error"
               /\ ~IsDone(stream[j]))
        => /\ pos <= k
           /\ pos = k => /\ bw.pc = "returned" /\ BwState(bw) = "DONE"
                         /\ bw.ret.some /\ bw.ret.v >= 0

WitC6 ==
    /\ fn = "benchmark_workflow" /\ bw.pc = "returned" /\ pos >= 2
    /\ IsDone(stream[pos]) /\ BwState(bw) = "DONE" /\ bw.ret.v > 0

\* C7: when an execution_error of the tracked job comes before any completion
\* event, neither tracker reads a frame past it, and the one that reads it
\* returns None (FAILED).
ThmC7 ==
    \A k \in 1..Len(stream) :
        (/\ IsErr(stream[k])
         /\ \A j \in 1..(k - 1) : ~IsErr(stream[j]) /\ ~IsDone(stream[j]))
        => /\ pos <= k
           /\ (pos = k /\ fn = "benchmark_workflow")
                 => /\ bw.pc = "returned" /\ BwState(bw) = "FAILED"
                    /\ ~bw.ret.some
           /\ (pos = k /\ fn = "track_execution")
                 => te.pc = "returned" /\ ~te.ret.some

WitC7 ==
    /\ fn = "track_execution" /\ pos >= 2 /\ pos < Len(stream)
    /\ IsErr(stream[pos]) /\ te.start_time.some
    /\ te.pc = "returned" /\ ~te.ret.some

\* C8: reading a frame of another job, or of an unlisted type, changes
\* nothing of either tracker's state, and the loop keeps waiting.
ThmC8 ==
    [][(pos' = pos + 1 /\ Ignorable(stream[pos + 1]))
         => (bw' = bw /\ te' = te)]_vars

WitC8 ==
    /\ fn = "track_execution" /\ pos >= 2 /\ te.pc = "recv"
    /\ te.start_time.some
    /\ Ignorable(stream[pos]) /\ stream[pos].type = "executing"
    /\ stream[pos].node = Null

\* C9: a POST is made only on a connected channel, and a failed connect
\* returns None without a POST.
ThmC9 ==
    /\ bw.posts > 0 => bw.ws \in {"open", "closed"}
    /\ bw.ws = "failed" =>
          bw.posts = 0 /\ bw.pc = "returned" /\ ~bw.ret.some

WitC9 == bw.posts = 1 /\ bw.ws = "open" /\ bw.pc = "posting"

\* C10 as stated: the duration returned on DONE spans at least the time from
\* the start of the submit call to the reading taken when DONE is observed.
OrigC10 ==
    (fn = "benchmark_workflow" /\ bw.pc = "returned" /\ bw.ret.some)
    => bw.ret.v >= bw.wall_end - bw.submitted_at

(***************************************************************************)
(* The orchestrators: benchmark_workflows.main and collect_perf_logs.main. *)
(***************************************************************************)
\* sorted(os.listdir(workflow_dir)), the same on every run.
Files == <<"a.json", "b.json">>
\* benchmark_workflows.py 190-192.
Configs == <<"default">>

\* A record written before the config field existed has none.
Absent == "<absent>"
\* r.get('config', 'default')
GetConfig(r) == IF r.config = Absent THEN "default" ELSE r.config

Existing_nodefault(rs, filename, cfg) ==
    \E k \in 1..Len(rs) : rs[k].workflow = filename /\ rs[k].config = cfg

Existing_only_success(rs, filename, cfg) ==
    \E k \in 1..Len(rs) :
        /\ rs[k].workflow = filename /\ GetConfig(rs[k]) = cfg
        /\ rs[k].status = "success"

Existing_never(rs, filename, cfg) == FALSE

\* Line 208: a record of this workflow and config is among the results.
Existing(rs, filename, cfg) ==
    \E k \in 1..Len(rs) :
        rs[k].workflow = filename /\ GetConfig(rs[k]) = cfg

result_entry_truthy(filename, cfg, cold, warm, now) ==
    [workflow |-> filename, config |-> cfg,
     status |-> IF Truthy(cold) THEN "success" ELSE "failure",
     duration_seconds |-> OrZero(cold),
     cold_run_seconds |-> OrZero(cold),
     warm_run_seconds |-> OrZero(warm),
     timestamp |-> now]

\* Lines 262-273. env is the config's (empty) mapping and is left out.
result_entry(filename, cfg, cold, warm, now) ==
    [workflow |-> filename, config |-> cfg,
     status |-> IF cold.some THEN "success" ELSE "failure",
     duration_seconds |-> OrZero(cold),
     cold_run_seconds |-> OrZero(cold),
     warm_run_seconds |-> OrZero(warm),
     timestamp |-> now]

append_result_if_success(rs, e) ==
    IF e.status = "success" THEN Append(rs, e) ELSE rs

\* Line 275.
append_result(rs, e) == Append(rs, e)

run_warm_unconditional(cold, warm_start) == warm_start

\* Line 258: the warm run is made when the cold run returned a duration and
\* --warm-start is given.
run_warm(cold, warm_start) == cold.some /\ warm_start

\* Lines 180-187: the records of the result file; none when the file is
\* missing or does not parse.
Load(f) == IF f.state = "list" THEN f.recs ELSE <<>>

\* Lines 183-187: json.load decides what results is bound to. A file holding
\* null leaves None (len(None) raises after the assignment and is caught); a
\* file holding a list of objects with no workflow field leaves that list.
LoadedType(f) == IF f.state \in {"null", "badrecs"} THEN f.state ELSE "list"

\* Line 280: json.dump(results, f, indent=2) writes the whole list.
json_dump_last(rs) ==
    [state |-> "list",
     recs |-> IF rs = <<>> THEN <<>> ELSE <<rs[Len(rs)]>>]

json_dump(rs) == [state |-> "list", recs |-> rs]

\* Lines 247-250: the readiness failure leaves the inner loop unless
\* --skip-errors is given.
on_not_ready_continue(skip_errors) == "continue"

on_not_ready(skip_errors) == IF skip_errors THEN "continue" ELSE "break"

\* Lines 289-292: an exception of the measurement step is re-raised unless
\* --skip-errors is given.
on_exception_swallow(skip_errors) == "swallowed"

on_exception(skip_errors) == IF skip_errors THEN "swallowed" ELSE "raise"

\* A KeyboardInterrupt raised inside the try block runs the finally clause
\* (benchmark_workflows.py 294, collect_perf_logs.py 154) on its way out.
interrupt_target == "finally"

\* Popen.terminate(): SIGTERM (nothing is sent to a process that has exited).
terminate(p) == [p EXCEPT !.terminate_calls = @ + 1]

stop_server_nokill(p, exits) ==
    IF p.state = "exited" \/ ~exits THEN terminate(p)
    ELSE [terminate(p) EXCEPT !.state = "exited"]

stop_server_nowait(p, exits) == terminate(p)

\* benchmark_workflows.py 297-301, collect_perf_logs.py 157-162: terminate,
\* wait up to 10 s, kill on TimeoutExpired. exits: the process ends within
\* the grace period.
stop_server(p, exits) ==
    IF p.state = "exited" THEN terminate(p)
    ELSE IF exits THEN [terminate(p) EXCEPT !.state = "exited"]
    ELSE [terminate(p) EXCEPT !.state = "killed"]

\* A result file left by an earlier version: one record with no config field.
LegacyFile ==
    [state |-> "list",
     recs |-> <<[workflow |-> "a.json", config |-> Absent,
                 status |-> "success", duration_seconds |-> 1,
                 cold_run_seconds |-> 1, warm_run_seconds |-> 0,
                 timestamp |-> 1]>>]

\* Result files that exist but hold no usable record list: text that does not
\* parse, the JSON value null, and a list of objects with no workflow field.
UnparsableFile == [state |-> "partial", recs |-> <<>>]
NullFile == [state |-> "null", recs |-> <<>>]
BadRecsFile == [state |-> "badrecs", recs |-> <<>>]

Init ==
    /\ clock = 1 /\ bw = bw_init /\ TrackIdle /\ net = net_init
    /\ prog \in {"benchmark_workflows", "collect_perf_logs"}
    /\ file \in IF prog = "benchmark_workflows"
                THEN {NoFile, LegacyFile, UnparsableFile, NullFile,
                      BadRecsFile}
                ELSE {NoFile}
    /\ fileAtStart = file
    /\ OrchIdle

Stopped == pc \in {"idle", "returned", "raised", "killed", "interrupted"}

\* benchmark_workflows.main 154-200: parse the arguments, load the results.
M_Start ==
    /\ prog = "benchmark_workflows" /\ Stopped /\ run < MaxRuns
    /\ args' \in [skip_errors : BOOLEAN, warm_start : BOOLEAN]
    /\ results' = Load(file)
    /\ ci' = 1 /\ fi' = 1 /\ pc' = "for_file"
    /\ process' = NoProcess /\ log_file' = "none" /\ after' = "-"
    /\ duration_cold' = None /\ duration_warm' = None /\ bw' = bw_init
    /\ run' = run + 1 /\ prevEnd' = pc /\ fileAtStart' = file
    /\ started' = 0 /\ posts' = 0 /\ saved' = "none"
    /\ durable' = Load(file)
    /\ results_type' = LoadedType(file) /\ write_errors' = 0
    /\ net' = net_init
    /\ UNCHANGED <<clock, trackVars, prog, file>>

\* Lines 202-243: the loop heads, the resume check, and the start of a round
\* (clear ~/.miopen, open server.log, Popen). ok: the preparation succeeds;
\* an exception there is outside every try and leaves main. So is line 208
\* when results is None (TypeError) or holds a record with no workflow
\* field (KeyError).
M_ForFile ==
    /\ prog = "benchmark_workflows" /\ pc = "for_file"
    /\ IF ci > Len(Configs)
       THEN /\ pc' = "returned"
            /\ UNCHANGED <<ci, fi, process, log_file, started, saved>>
       ELSE IF fi > Len(Files)
       THEN /\ ci' = ci + 1 /\ fi' = 1
            /\ UNCHANGED <<pc, process, log_file, started, saved>>
       ELSE IF results_type # "list"
       THEN /\ pc' = "raised"
            /\ UNCHANGED <<ci, fi, process, log_file, started, saved>>
       ELSE IF Existing(results, Files[fi], Configs[ci])
       THEN /\ fi' = fi + 1
            /\ UNCHANGED <<pc, ci, process, log_file, started, saved>>
       ELSE \E ok \in BOOLEAN :
              IF ok
              THEN /\ process' = [state |-> "running", terminate_calls |-> 0]
                   /\ log_file' = "open"
                   /\ started' = started + 1 /\ saved' = "none"
                   /\ pc' = "wait_for_server"
                   /\ UNCHANGED <<ci, fi>>
              ELSE /\ pc' = "raised"
                   /\ UNCHANGED <<ci, fi, process, log_file, started, saved>>
    /\ UNCHANGED <<clock, bw, trackVars, prog, args, results, file, after,
                   duration_cold, duration_warm, run, prevEnd, fileAtStart,
                   posts, durable,
                   results_type, write_errors, net>>

\* Lines 245-250: wait_for_server (139-152) answers ready, or times out with
\* the server still starting, or with the server process already gone.
M_Wait ==
    /\ prog = "benchmark_workflows" /\ pc = "wait_for_server"
    /\ \E outcome \in {"ready", "timeout", "crashed"} :
          IF outcome = "ready"
          THEN /\ pc' = "cold" /\ bw' = bw_init
               /\ UNCHANGED <<process, after>>
          ELSE LET p == IF outcome = "crashed"
                        THEN [process EXCEPT !.state = "exited"]
                        ELSE process
               IN  /\ process' = IF args.skip_errors THEN p ELSE terminate(p)
                   /\ after' = on_not_ready(args.skip_errors)
                   /\ pc' = "finally"
                   /\ UNCHANGED bw
    /\ UNCHANGED <<clock, trackVars, prog, args, ci, fi, results, file,
                   log_file, duration_cold, duration_warm, run, prevEnd,
                   fileAtStart, started, posts, saved, durable,
                   results_type, write_errors, net>>

\* The POST of a benchmark_workflow call made by a main.
M_SubmitBegin ==
    /\ pc \in {"cold", "warm", "run"} /\ bw.pc = "submit"
    /\ bw' = bw_submit_begin(bw, clock)
    /\ posts' = posts + 1
    /\ UNCHANGED <<clock, trackVars, prog, args, pc, ci, fi, results, file,
                   process, log_file, after, duration_cold, duration_warm,
                   run, prevEnd, fileAtStart, started, saved, durable,
                   results_type, write_errors, net>>

\* One ws.recv() of a benchmark_workflow call made by a main: the server
\* sends any frame.
M_Recv ==
    /\ pc \in {"cold", "warm", "run"} /\ bw.pc = "recv"
    /\ \E f \in Frames : bw' = bw_recv(bw, f, clock)
    /\ net' = net_step(net, bw, bw')
    /\ UNCHANGED <<clock, trackVars, orchVars>>

\* Lines 255-275 and 289-292: benchmark_workflow comes back to main. A cold
\* run that returned a duration is followed by the warm run when asked for;
\* otherwise the record is built and appended. An exception skips both.
M_Return ==
    /\ prog = "benchmark_workflows" /\ pc \in {"cold", "warm"}
    /\ bw.pc \in {"returned", "raised"}
    /\ IF bw.pc = "raised"
       THEN /\ after' = on_exception(args.skip_errors)
            /\ pc' = "finally"
            /\ UNCHANGED <<bw, results, duration_cold, duration_warm>>
       ELSE IF pc = "cold" /\ run_warm(bw.ret, args.warm_start)
       THEN /\ duration_cold' = bw.ret /\ duration_warm' = None
            /\ pc' = "warm" /\ bw' = bw_init
            /\ UNCHANGED <<after, results>>
       ELSE LET cold == IF pc = "cold" THEN bw.ret ELSE duration_cold
                warm == IF pc = "cold" THEN None ELSE bw.ret
            IN  /\ duration_cold' = cold /\ duration_warm' = warm
                /\ results' = append_result(results,
                                  result_entry(Files[fi], Configs[ci],
                                               cold, warm, clock))
                /\ pc' = "save_open"
                /\ UNCHANGED <<after, bw>>
    /\ UNCHANGED <<clock, trackVars, prog, args, ci, fi, file, process,
                   log_file, run, prevEnd, fileAtStart, started, posts,
                   saved, durable,
                   results_type, write_errors, net>>

\* Line 279: open(output_path, 'w') truncates the file, or fails
\* (PermissionError, OSError) and leaves it as it was.
M_SaveOpen ==
    /\ prog = "benchmark_workflows" /\ pc = "save_open"
    /\ \E ok \in BOOLEAN :
          IF ok
          THEN /\ file' = [state |-> "partial", recs |-> <<>>]
               /\ pc' = "save_dump"
               /\ UNCHANGED <<saved, after, write_errors>>
          ELSE /\ saved' = "failed" /\ after' = "done" /\ pc' = "finally"
               /\ write_errors' = write_errors + 1
               /\ UNCHANGED file
    /\ UNCHANGED <<clock, bw, trackVars, prog, args, ci, fi, results, process,
                   log_file, duration_cold, duration_warm, run, prevEnd,
                   fileAtStart, started, posts, durable, results_type, net>>

\* Lines 280-287: json.dump writes the whole list, or fails part way (OSError)
\* and leaves a file that does not parse. The error is printed either way.
M_SaveDump ==
    /\ prog = "benchmark_workflows" /\ pc = "save_dump"
    /\ \E ok \in BOOLEAN :
          IF ok
          THEN /\ file' = json_dump(results)
               /\ saved' = "ok" /\ durable' = results
               /\ UNCHANGED write_errors
          ELSE /\ saved' = "failed" /\ durable' = <<>>
               /\ write_errors' = write_errors + 1
               /\ UNCHANGED file
    /\ after' = "done" /\ pc' = "finally"
    /\ UNCHANGED <<clock, bw, trackVars, prog, args, ci, fi, results, process,
                   log_file, duration_cold, duration_warm, run, prevEnd,
                   fileAtStart, started, posts, results_type, net>>

\* benchmark_workflows.py 294-302, collect_perf_logs.py 154-164: the finally
\* block, then what the try block had decided: next workflow, break, re-raise,
\* or (collect_perf_logs) the log collection. A KeyboardInterrupt goes on
\* propagating out of benchmark_workflows.main; collect_perf_logs.main has
\* caught it and leaves the loop (150-153).
Finally ==
    /\ pc = "finally"
    /\ \E exits \in BOOLEAN : process' = stop_server(process, exits)
    /\ log_file' = "closed"
    /\ CASE after = "break" -> ci' = ci + 1 /\ fi' = 1 /\ pc' = "for_file"
         [] after = "raise" -> pc' = "raised" /\ UNCHANGED <<ci, fi>>
         [] after = "collect" -> pc' = "collect_logs" /\ UNCHANGED <<ci, fi>>
         [] after = "interrupt" -> pc' = "interrupted" /\ UNCHANGED <<ci, fi>>
         [] after = "interrupt_break" ->
                pc' = "returned" /\ UNCHANGED <<ci, fi>>
         [] OTHER -> fi' = fi + 1 /\ pc' = "for_file" /\ UNCHANGED ci
    /\ UNCHANGED <<clock, bw, trackVars, prog, args, results, file, after,
                   duration_cold, duration_warm, run, prevEnd, fileAtStart,
                   started, posts, saved, durable,
                   results_type, write_errors, net>>

\* The orchestrator process is killed (SIGKILL, power loss): its memory is
\* gone, the result file stays as it is on disk.
Kill ==
    /\ prog = "benchmark_workflows" /\ ~Stopped
    /\ pc' = "killed"
    /\ results' = <<>> /\ ci' = 1 /\ fi' = 1 /\ bw' = bw_init
    /\ process' = NoProcess /\ log_file' = "none" /\ after' = "-"
    /\ duration_cold' = None /\ duration_warm' = None /\ args' = NoArgs
    /\ results_type' = "list"
    /\ net' = net_init
    /\ UNCHANGED <<clock, trackVars, prog, file, run, prevEnd, fileAtStart,
                   started, posts, saved, durable, write_errors>>

\* collect_perf_logs.main 43-91.
C_Start ==
    /\ prog = "collect_perf_logs" /\ Stopped /\ run < MaxRuns
    /\ fi' = 1 /\ pc' = "for_file"
    /\ process' = NoProcess /\ log_file' = "none" /\ after' = "-"
    /\ bw' = bw_init
    /\ run' = run + 1 /\ prevEnd' = pc /\ started' = 0 /\ posts' = 0
    /\ net' = net_init
    /\ UNCHANGED <<clock, trackVars, prog, args, ci, results, file,
                   duration_cold, duration_warm, fileAtStart, saved, durable,
                   results_type, write_errors>>

\* Lines 93-130: the loop head and the start of a round (clear ~/.miopen,
\* remove the old logs, open the log, Popen).
C_ForFile ==
    /\ prog = "collect_perf_logs" /\ pc = "for_file"
    /\ IF fi > Len(Files)
       THEN pc' = "returned" /\ UNCHANGED <<process, log_file, started>>
       ELSE \E ok \in BOOLEAN :
              IF ok
              THEN /\ process' = [state |-> "running", terminate_calls |-> 0]
                   /\ log_file' = "open" /\ started' = started + 1
                   /\ pc' = "wait_for_server"
              ELSE /\ pc' = "raised"
                   /\ UNCHANGED <<process, log_file, started>>
    /\ UNCHANGED <<clock, bw, trackVars, prog, args, ci, fi, results, file,
                   after, duration_cold, duration_warm, run, prevEnd,
                   fileAtStart, posts, saved, durable,
                   results_type, write_errors, net>>

\* Lines 132-136.
C_Wait ==
    /\ prog = "collect_perf_logs" /\ pc = "wait_for_server"
    /\ \E outcome \in {"ready", "timeout", "crashed"} :
          IF outcome = "ready"
          THEN pc' = "run" /\ bw' = bw_init /\ UNCHANGED <<process, after>>
          ELSE /\ process' = IF outcome = "crashed"
                             THEN [process EXCEPT !.state = "exited"]
                             ELSE process
               /\ after' = "continue" /\ pc' = "finally"
               /\ UNCHANGED bw
    /\ UNCHANGED <<clock, trackVars, prog, args, ci, fi, results, file,
                   log_file, duration_cold, duration_warm, run, prevEnd,
                   fileAtStart, started, posts, saved, durable,
                   results_type, write_errors, net>>

\* Lines 140-148: the duration or the exception is printed.
C_Return ==
    /\ prog = "collect_perf_logs" /\ pc = "run"
    /\ bw.pc \in {"returned", "raised"}
    /\ after' = "collect" /\ pc' = "finally"
    /\ UNCHANGED <<clock, bw, trackVars, prog, args, ci, fi, results, file,
                   process, log_file, duration_cold, duration_warm, run,
                   prevEnd, fileAtStart, started, posts, saved, durable,
                   results_type, write_errors, net>>

\* Lines 166-192: sort and move the logs. ok: the moves succeed.
C_CollectLogs ==
    /\ prog = "collect_perf_logs" /\ pc = "collect_logs"
    /\ \E ok \in BOOLEAN :
          IF ok THEN fi' = fi + 1 /\ pc' = "for_file"
                ELSE pc' = "raised" /\ UNCHANGED fi
    /\ UNCHANGED <<clock, bw, trackVars, prog, args, ci, results, file,
                   process, log_file, after, duration_cold, duration_warm,
                   run, prevEnd, fileAtStart, started, posts, saved, durable,
                   results_type, write_errors, net>>

\* Ctrl-C while benchmark_workflows.main is blocked inside the try block of
\* a round (244-292): in wait_for_server, in ws.recv() or the POST of a
\* benchmark_workflow call, or in the write of the result file. No except
\* clause catches KeyboardInterrupt: the frame of benchmark_workflow is
\* unwound and the finally clause runs.
M_Interrupt ==
    /\ prog = "benchmark_workflows"
    /\ pc \in {"wait_for_server", "cold", "warm", "save_open", "save_dump"}
    /\ after' = "interrupt" /\ pc' = interrupt_target
    /\ bw' = bw_init
    /\ UNCHANGED <<clock, trackVars, prog, args, ci, fi, results, file,
                   process, log_file, duration_cold, duration_warm, run,
                   prevEnd, fileAtStart, started, posts, saved, durable,
                   results_type, write_errors, net>>

\* Ctrl-C in collect_perf_logs.main. Inside the try block (132-148) lines
\* 150-153 terminate the server and break; in the log collection (166-192)
\* nothing catches it.
C_Interrupt ==
    /\ prog = "collect_perf_logs"
    /\ pc \in {"wait_for_server", "run", "collect_logs"}
    /\ IF pc = "collect_logs"
       THEN pc' = "interrupted" /\ UNCHANGED <<process, after>>
       ELSE /\ process' = terminate(process)
            /\ after' = "interrupt_break" /\ pc' = interrupt_target
    /\ bw' = bw_init
    /\ UNCHANGED <<clock, trackVars, prog, args, ci, fi, results, file,
                   log_file, duration_cold, duration_warm, run, prevEnd,
                   fileAtStart, started, posts, saved, durable,
                   results_type, write_errors, net>>

\* Ctrl-C in the finally clause. early: while "Stopping server..." is printed
\* (benchmark_workflows.py 296, collect_perf_logs.py 156), before
\* terminate() is called; otherwise while the clause waits for the server to
\* exit (298, 158), with terminate() called and the kill and the close of the
\* log skipped.
FinallyInterrupt ==
    /\ pc = "finally"
    /\ \E early \in BOOLEAN :
          process' = IF early THEN process ELSE terminate(process)
    /\ pc' = "interrupted"
    /\ UNCHANGED <<clock, bw, trackVars, prog, args, ci, fi, results, file,
                   log_file, after, duration_cold, duration_warm, run,
                   prevEnd, fileAtStart, started, posts, saved, durable,
                   results_type, write_errors, net>>

\* Ctrl-C between the start of the server process and the try statement
\* (benchmark_workflows.py 236-244, collect_perf_logs.py 124-132): inside
\* Popen once the child is forked, or right after it returns. No finally
\* clause is active yet.
PopenInterrupt ==
    /\ pc = "for_file" /\ fi <= Len(Files)
    /\ prog = "benchmark_workflows"
       => /\ ci <= Len(Configs) /\ results_type = "list"
          /\ ~Existing(results, Files[fi], Configs[ci])
    /\ process' = [state |-> "running", terminate_calls |-> 0]
    /\ log_file' = "open" /\ started' = started + 1 /\ saved' = "none"
    /\ pc' = "interrupted"
    /\ UNCHANGED <<clock, bw, trackVars, prog, args, ci, fi, results, file,
                   after, duration_cold, duration_warm, run, prevEnd,
                   fileAtStart, posts, durable, results_type, write_errors,
                   net>>

Next ==
    \/ M_Start \/ M_ForFile \/ M_Wait \/ M_Return \/ M_SaveOpen \/ M_SaveDump
    \/ C_Start \/ C_ForFile \/ C_Wait \/ C_Return \/ C_CollectLogs
    \/ Finally \/ Kill
    \/ M_Interrupt \/ C_Interrupt \/ FinallyInterrupt \/ PopenInterrupt
    \/ Tick \/ BwLoad \/ BwConnect \/ M_SubmitBegin \/ BwSubmitEnd \/ M_Recv

Spec == Init /\ [][Next]_vars

(***************************************************************************)
(* Orchestrator claims.                                                    *)
(***************************************************************************)
\* The key of a record: a record with no config field counts as "default".
KeyOf(r) == <<r.workflow, IF r.config = Absent THEN "default" ELSE r.config>>
Count(rs, key) == Cardinality({k \in 1..Len(rs) : KeyOf(rs[k]) = key})
AllPairs == {<<Files[f], Configs[c]>> : f \in 1..Len(Files),
                                         c \in 1..Len(Configs)}

\* C1: when a round in which the server was started is over (the next round
\* is about to begin, or main has returned or raised), terminate() has been
\* called on the process, the process has exited or has been killed, and the
\* log file is closed. Holds of both orchestrators.
ThmC1 ==
    (pc \in {"for_file", "collect_logs", "returned", "raised"}
     /\ process.state # "none")
    => /\ process.terminate_calls >= 1
       /\ process.state \in {"exited", "killed"}
       /\ log_file = "closed"

WitC1 ==
    /\ pc = "raised" /\ after = "raise" /\ process.state = "killed"
    /\ started = 2

\* C2: the result file never holds two records with the same key.
ThmC2 == \A key \in AllPairs : Count(Load(file), key) <= 1

WitC2 ==
    /\ run = 2 /\ prevEnd = "killed" /\ file.state = "list"
    /\ Len(file.recs) = 2 /\ file.recs[1].config = Absent
    /\ file.recs[2].status = "failure"

\* C3 as stated: after a kill, every record the last completed write had put
\* in the result file is still loaded from it.
OrigC3 ==
    pc = "killed" =>
    \A k \in 1..Len(durable) :
        \E j \in 1..Len(Load(file)) : Load(file)[j] = durable[k]

\* C4 as stated: a second run, after a first run that returned from main,
\* starts no server, submits no job and leaves the file as it found it.
OrigC4 ==
    (prog = "benchmark_workflows" /\ run = 2 /\ prevEnd = "returned")
    => (started = 0 /\ posts = 0 /\ file = fileAtStart)

\* C4 amended: a later run that finds a record of every pair in the result
\* file starts no server, submits no job and leaves the file as it found it.
ThmC4 ==
    (prog = "benchmark_workflows" /\ run >= 2
     /\ \A key \in AllPairs : Count(Load(fileAtStart), key) >= 1)
    => (started = 0 /\ posts = 0 /\ file = fileAtStart)

WitC4 ==
    /\ prog = "benchmark_workflows" /\ run = 2 /\ pc = "returned"
    /\ prevEnd = "returned"
    /\ \A key \in AllPairs : Count(Load(fileAtStart), key) >= 1
    /\ \E k \in 1..Len(file.recs) : file.recs[k].status = "failure"

CurKey == <<Files[fi], Configs[ci]>>

\* C5 as stated: every round of benchmark_workflows.main ends with a record
\* of its pair appended and a write of the result file attempted.
OrigC5 ==
    (prog = "benchmark_workflows" /\ pc = "finally")
    => (Count(results, CurKey) = 1 /\ saved # "none")

\* C5 amended: a round whose server became ready and whose benchmark_workflow
\* calls returned ends with exactly one record of its pair appended last
\* (failure and zero durations when the cold run returned None) and a write
\* attempted, the file holding the results when the write succeeded; a round
\* ended by a readiness failure or by an exception appends no record and
\* attempts no write. (A round cut short by Ctrl-C is not a round that ended.)
ThmC5 ==
    (prog = "benchmark_workflows" /\ pc = "finally" /\ after # "interrupt")
    => IF after = "done"
       THEN /\ Count(results, CurKey) = 1
            /\ KeyOf(results[Len(results)]) = CurKey
            /\ results[Len(results)].status =
                  (IF duration_cold.some THEN "success" ELSE "failure")
            /\ ~duration_cold.some =>
                  /\ results[Len(results)].cold_run_seconds = 0
                  /\ results[Len(results)].warm_run_seconds = 0
            /\ saved \in {"ok", "failed"}
            /\ saved = "ok" => file = [state |-> "list", recs |-> results]
       ELSE /\ after \in {"continue", "break", "swallowed", "raise"}
            /\ Count(results, CurKey) = 0
            /\ saved = "none"

WitC5 ==
    /\ prog = "benchmark_workflows" /\ pc = "finally" /\ after = "done"
    /\ ~duration_cold.some /\ saved = "ok" /\ Len(results) = 2

IsPrefix(a, b) == Len(a) <= Len(b) /\ SubSeq(b, 1, Len(a)) = a

\* C11: within one run of benchmark_workflows.main the in-memory records are
\* only ever extended; a write of the result file that fails (at open or in
\* json.dump) ends the round normally with the pair's record still in memory;
\* the round is followed by the next pair; and a write that succeeds leaves
\* the file holding every in-memory record, those of failed writes included.
ThmC11 ==
    [][(prog = "benchmark_workflows" /\ run' = run /\ pc' # "killed")
       => /\ IsPrefix(results, results')
          /\ (pc \in {"save_open", "save_dump"} /\ saved' = "failed")
             => /\ pc' = "finally" /\ after' = "done"
                /\ results' = results /\ Count(results', CurKey) = 1
          /\ (pc = "finally" /\ after = "done" /\ pc' # "interrupted")
             => (pc' = "for_file" /\ fi' = fi + 1 /\ results' = results)
          /\ (pc = "save_dump" /\ saved' = "ok")
             => file' = [state |-> "list", recs |-> results]]_vars

WitC11 ==
    /\ prog = "benchmark_workflows" /\ pc = "finally" /\ saved = "ok"
    /\ fileAtStart.state = "missing" /\ run = 1
    /\ write_errors = 1 /\ Len(results) = 2 /\ file.recs = results

\* C12 as stated: for a result file that is missing, does not parse, or
\* parses to something other than a list of records with a workflow field,
\* main goes on with an empty record list: no exception leaves main with
\* results bound to what such a file held.
OrigC12 ==
    (/\ prog = "benchmark_workflows"
     /\ fileAtStart.state \in {"missing", "partial", "null", "badrecs"}
     /\ pc = "raised")
    => (results_type = "list" /\ results = <<>>)

\* C13 as stated: with --skip-errors no error of a single pair ends the batch:
\* no exception leaves benchmark_workflows.main (the loaded records being a
\* list).
OrigC13 ==
    (prog = "benchmark_workflows" /\ args.skip_errors
     /\ results_type = "list")
    => pc # "raised"

\* C14 as stated: with --skip-errors unset, once the cold run of a pair has
\* failed in this run no later pair is started.
OrigC14 ==
    (prog = "benchmark_workflows" /\ ~args.skip_errors
     /\ pc = "wait_for_server")
    => \A k \in (Len(Load(fileAtStart)) + 1)..Len(results) :
          results[k].status # "failure"

\* C14 amended: the flag decides what a readiness failure and an exception of
\* the measurement step do: unset, the readiness failure leaves the loop
\* (break) and the exception is re-raised, and no later pair is started; set,
\* the next pair is processed. A cold run that returned None (tracker FAILED,
\* submission or connect failure) is recorded as a failure and the next pair
\* is processed whatever the flag. The finally block stops the server in
\* every case.
ThmC14 ==
    [][(prog = "benchmark_workflows" /\ pc' # pc
        /\ pc' \notin {"killed", "interrupted"} /\ after' # "interrupt")
       => /\ (pc = "wait_for_server" /\ pc' # "cold")
             => /\ pc' = "finally"
                /\ after' = (IF args.skip_errors THEN "continue" ELSE "break")
          /\ (pc \in {"cold", "warm"} /\ bw.pc = "raised")
             => /\ pc' = "finally"
                /\ after' = (IF args.skip_errors THEN "swallowed" ELSE "raise")
          /\ (pc = "cold" /\ bw.pc = "returned" /\ ~bw.ret.some)
             => /\ pc' = "save_open"
                /\ results'[Len(results')].status = "failure"
                /\ KeyOf(results'[Len(results')]) = CurKey
          /\ pc = "finally"
             => /\ process'.terminate_calls >= 1
                /\ process'.state \in {"exited", "killed"}
                /\ after \in {"continue", "swallowed", "done"}
                   => (pc' = "for_file" /\ fi' = fi + 1 /\ ci' = ci)
                /\ after = "break"
                   => (pc' = "for_file" /\ ci' > Len(Configs))
                /\ after = "raise" => pc' = "raised"
          /\ (pc = "for_file" /\ ci > Len(Configs))
             => (pc' = "returned" /\ started' = started)]_vars

WitC14 ==
    /\ prog = "benchmark_workflows" /\ ~args.skip_errors
    /\ fileAtStart.state = "missing" /\ run = 1
    /\ pc = "finally" /\ after = "done" /\ fi = 2 /\ started = 2
    /\ results[1].status = "failure" /\ process.state = "running"

\* C15: with --skip-errors unset a readiness failure calls terminate() and
\* leaves the loop with no record appended and no write attempted; from then
\* on the run starts no server, submits no job, and changes neither the
\* records nor the file; the finally block has stopped the process and main
\* returns (Ctrl-C aside).
ThmC15 ==
    /\ []((prog = "benchmark_workflows" /\ after = "break"
           /\ pc # "interrupted")
          => /\ ~args.skip_errors /\ saved = "none"
             /\ pc \in {"finally", "for_file", "returned"}
             /\ process.terminate_calls >= 1
             /\ pc = "finally" => Count(results, CurKey) = 0
             /\ pc # "finally"
                => /\ ci > Len(Configs)
                   /\ process.state \in {"exited", "killed"}
                   /\ log_file = "closed")
    /\ [][(prog = "benchmark_workflows"
           /\ pc' \notin {"killed", "interrupted"} /\ after' # "interrupt")
          => /\ (pc = "wait_for_server" /\ ~args.skip_errors /\ pc' # "cold")
                => (after' = "break" /\ pc' = "finally")
             /\ (after = "break" /\ pc \in {"finally", "for_file"})
                => /\ results' = results /\ file' = file
                   /\ started' = started /\ posts' = posts
                   /\ pc' \in {"for_file", "returned"}]_vars

WitC15 ==
    /\ prog = "benchmark_workflows" /\ pc = "returned" /\ after = "break"
    /\ run = 1 /\ started = 1 /\ results = <<>> /\ file = NoFile
    /\ process.state = "killed"

\* C16 as stated: when a KeyboardInterrupt ends a main after the server
\* process of a round was started, terminate() has been called on that
\* process.
OrigC16 ==
    (pc = "interrupted" /\ process.state # "none")
    => process.terminate_calls >= 1

\* C16, the part that holds: a KeyboardInterrupt raised inside the try block
\* of a round (readiness wait, benchmark_workflow including ws.recv(), write
\* of the result file) reaches the finally clause, or the except clause of
\* collect_perf_logs.main, which calls terminate().
InTryInterruptTerminates ==
    [][(after' \in {"interrupt", "interrupt_break"} /\ after' # after)
       => /\ pc' = "finally"
          /\ prog = "collect_perf_logs" => process'.terminate_calls >= 1]_vars

\* C17: the cold call of a pair hands main a duration exactly when its tracker
\* ended in DONE; the record appended for the pair has status success exactly
\* then, with cold_run_seconds the duration returned; otherwise it has status
\* failure with cold_run_seconds = 0 and warm_run_seconds = 0. After the
\* record is saved (or the write has failed) the next pair is processed.
ThmC17 ==
    [][(prog = "benchmark_workflows" /\ pc' # pc
        /\ pc' \notin {"killed", "interrupted"} /\ after' # "interrupt")
       => /\ (pc = "cold" /\ bw.pc = "returned")
             => /\ duration_cold' = bw.ret
                /\ bw.ret.some <=> BwState(bw) = "DONE"
                /\ ~bw.ret.some => pc' = "save_open"
          /\ (pc \in {"cold", "warm"} /\ pc' = "save_open")
             => LET r == results'[Len(results')]
                IN  /\ Len(results') = Len(results) + 1
                    /\ KeyOf(r) = CurKey
                    /\ r.status = "success" <=> duration_cold'.some
                    /\ r.status \in {"success", "failure"}
                    /\ duration_cold'.some
                       => r.cold_run_seconds = duration_cold'.v
                    /\ ~duration_cold'.some
                       => /\ r.cold_run_seconds = 0
                          /\ r.warm_run_seconds = 0
          /\ (pc = "finally" /\ after = "done")
             => (pc' = "for_file" /\ fi' = fi + 1 /\ ci' = ci)]_vars

WitC17 ==
    /\ prog = "benchmark_workflows" /\ pc = "finally" /\ saved = "ok"
    /\ Len(results) = 2 /\ file.recs = results
    /\ results[1].workflow = "a.json" /\ results[1].status = "failure"
    /\ results[1].cold_run_seconds = 0
    /\ results[2].workflow = "b.json" /\ results[2].status = "success"
    /\ results[2].cold_run_seconds = 1

\* C18: when the records hold one for the pair at the head of the loop (a
\* record with no config field counting as "default"), the next step of
\* benchmark_workflows.main moves on to the next workflow and nothing else:
\* no server started, no benchmark_workflow call (no channel, no POST), the
\* records and the result file as they were.
ThmC18 ==
    [][(/\ prog = "benchmark_workflows" /\ pc = "for_file"
        /\ ci <= Len(Configs) /\ fi <= Len(Files) /\ results_type = "list"
        /\ \E k \in 1..Len(results) : KeyOf(results[k]) = CurKey
        /\ pc' # "killed")
       => /\ pc' = "for_file" /\ fi' = fi + 1 /\ ci' = ci
          /\ UNCHANGED <<results, file, process, log_file, started, posts,
                         bw, saved, write_errors>>]_vars

WitC18 ==
    /\ prog = "benchmark_workflows" /\ pc = "for_file" /\ fi = 2 /\ run = 1
    /\ started = 0 /\ posts = 0 /\ process = NoProcess
    /\ results = LegacyFile.recs /\ results[1].config = Absent
    /\ file = LegacyFile

\* C19: a benchmark_workflow call made by a main issues at most one POST; a
\* POST that fails ends the call at once with exactly one POST made, the
\* channel closed and None returned, the records and the result file
\* untouched by that step; and the failure record main then appends leaves
\* the earlier records as they were.
ThmC19 ==
    /\ [](bw.posts <= 1)
    /\ []((bw.pc = "returned" /\ bw.posts = 1 /\ bw.prompt_id = "-")
          => (bw.ws = "closed" /\ ~bw.ret.some))
    /\ [][pc' # "killed"
          => /\ (pc \in {"cold", "warm", "run"} /\ pc' = pc
                 /\ bw.pc = "posting" /\ bw'.pc \notin {"posting", "recv"})
                => /\ bw'.pc = "returned" /\ bw'.posts = 1
                   /\ bw'.ws = "closed" /\ ~bw'.ret.some
                   /\ UNCHANGED <<results, file, posts, pc>>
             /\ (prog = "benchmark_workflows" /\ pc = "cold"
                 /\ bw.pc = "returned" /\ bw.prompt_id = "-"
                 /\ pc' # pc /\ after' # "interrupt")
                => /\ pc' = "save_open" /\ IsPrefix(results, results')
                   /\ Len(results') = Len(results) + 1
                   /\ file' = file]_vars

WitC19 ==
    /\ prog = "benchmark_workflows" /\ pc = "cold" /\ bw.pc = "returned"
    /\ bw.posts = 1 /\ bw.prompt_id = "-" /\ bw.ws = "closed"
    /\ posts = 1 /\ results = LegacyFile.recs /\ file = LegacyFile

\* C20 as stated: once a receive has raised (the channel disconnected), the
\* tracker has returned to its caller with no duration, in FAILED, rather
\* than let the exception through.
OrigC20 ==
    (pos >= 1 /\ stream[pos].kind = "error")
    => IF fn = "benchmark_workflow"
       THEN bw.pc = "returned" /\ ~bw.ret.some /\ BwState(bw) = "FAILED"
       ELSE te.pc = "returned" /\ ~te.ret.some

\* C20, the part that holds: the loop of benchmark_workflow turns a receive
\* that raises into FAILED and returns None.
RecvErrorFailsPrimary ==
    (fn = "benchmark_workflow" /\ pos >= 1 /\ stream[pos].kind = "error")
    => (bw.pc = "returned" /\ ~bw.ret.some /\ BwState(bw) = "FAILED")

(***************************************************************************)
(* Workflow document claims.                                               *)
(***************************************************************************)
\* v is an integer in [1, 10^14].
InSeedRange(v) ==
    /\ v.kind = "int" /\ v.hi >= 0 /\ v.lo >= 0 /\ v.lo < Base
    /\ \/ v.hi = 0 /\ v.lo >= 1
       \/ v.hi >= 1 /\ v.hi < Base
       \/ v.hi = Base /\ v.lo = 0

HasSeedField(d) ==
    \E n \in DOMAIN d : d[n].has_inputs /\ DOMAIN d[n].inputs \cap SeedKeys # {}

\* C21: after the randomization step the document has the nodes it was loaded
\* with, each with its class_type, its inputs present or not, and the same
\* input keys; every input other than seed and noise_seed has its loaded
\* value; with randomize_seed every seed and noise_seed input present holds
\* an integer in [1, 10^14]; without it, or with no such input, the document
\* is the loaded one; and the document posted is that document.
ThmC21 ==
    (fn = "seed" /\ sd.pc \in {"submit", "posted"})
    => LET d0 == sd.workflow_file
           d1 == sd.prompt_workflow
       IN  /\ DOMAIN d1 = DOMAIN d0
           /\ \A n \in DOMAIN d0 :
                 /\ d1[n].class_type = d0[n].class_type
                 /\ d1[n].has_inputs = d0[n].has_inputs
                 /\ DOMAIN d1[n].inputs = DOMAIN d0[n].inputs
                 /\ \A k \in DOMAIN d0[n].inputs :
                       IF k \in {"seed", "noise_seed"} /\ sd.randomize_seed
                       THEN InSeedRange(d1[n].inputs[k])
                       ELSE d1[n].inputs[k] = d0[n].inputs[k]
           /\ (~sd.randomize_seed \/ ~HasSeedField(d0)) => d1 = d0
           /\ sd.pc = "posted" => sd.posted = d1

WitC21 ==
    /\ fn = "seed" /\ sd.pc = "posted" /\ sd.randomize_seed
    /\ DOMAIN sd.workflow_file = {"3", "4"}
    /\ sd.workflow_file["3"].inputs =
          [k \in InputKeys |-> IF k = "steps" THEN IntVal(0, 7) ELSE LinkVal]
    /\ ~sd.workflow_file["4"].has_inputs
    /\ sd.posted["3"].inputs["seed"] = IntVal(Base, 0)
    /\ sd.posted["3"].inputs["noise_seed"] = IntVal(0, 1)
    /\ sd.posted["3"].inputs["steps"] = IntVal(0, 7)
    /\ sd.posted["4"] = sd.workflow_file["4"]

\* C22 as stated: in track_execution, once a start signal of the tracked job
\* has set start_time, no later frame changes it.
OrigC22 ==
    [][(fn = "track_execution" /\ te.start_time.some)
       => te'.start_time = te.start_time]_vars

\* C22, the part that holds: a later executing frame with a node leaves a
\* start_time that is set as it is.
ExecutingKeepsStart ==
    [][(/\ fn = "track_execution" /\ te.start_time.some /\ pos' = pos + 1
        /\ stream[pos'].kind = "text" /\ stream[pos'].type = "executing")
       => te'.start_time = te.start_time]_vars

\* C23: the cold call of a pair is followed by a warm call exactly when it
\* returned a duration and --warm-start is given; from the start of the cold
\* call to the end of the warm call the server process is the one started for
\* the round, running, and no other is started; the record holds the warm
\* duration when a warm call returned one and 0 otherwise, and its status is
\* success exactly when the cold call returned a duration.
ThmC23 ==
    [][(prog = "benchmark_workflows"
        /\ pc' \notin {"killed", "interrupted"} /\ after' # "interrupt")
       => /\ (pc = "cold" /\ pc' # pc)
             => (pc' = "warm"
                 <=> (bw.pc = "returned" /\ bw.ret.some /\ args.warm_start))
          /\ pc' = "warm" => pc \in {"cold", "warm"}
          /\ (pc \in {"cold", "warm"} /\ pc' = "warm")
             => /\ process' = process /\ process.state = "running"
                /\ process.terminate_calls = 0
                /\ started' = started /\ fi' = fi /\ ci' = ci
          /\ (pc \in {"cold", "warm"} /\ pc' = "save_open")
             => LET r == results'[Len(results')]
                    warmed == pc = "warm" /\ bw.ret.some
                IN  /\ r.warm_run_seconds = (IF warmed THEN bw.ret.v ELSE 0)
                    /\ r.status = "success" <=> duration_cold'.some
                    /\ pc = "warm" => /\ duration_cold' = duration_cold
                                      /\ duration_cold.some
                                      /\ r.status = "success"]_vars

WitC23 ==
    /\ prog = "benchmark_workflows" /\ pc = "save_open" /\ args.warm_start
    /\ started = 1 /\ posts = 2 /\ process.state = "running"
    /\ duration_cold = Some(1) /\ ~duration_warm.some
    /\ results[Len(results)].status = "success"
    /\ results[Len(results)].cold_run_seconds = 1
    /\ results[Len(results)].warm_run_seconds = 0

\* C24: a benchmark_workflow call connects with a client id no earlier call
\* of the process has drawn, and no channel is open when it connects; it
\* makes at most one POST; when it has returned its channel is not open; no
\* channel is open outside a call (Ctrl-C aside); so a warm call never uses
\* the channel of the cold call and at most one channel is open at any time.
ThmC24 ==
    /\ [](/\ Cardinality(net.open) <= 1
          /\ bw.posts <= 1
          /\ bw.ws = "open"
             => (net.open = {bw.client_id} /\ bw.client_id = net.uuids)
          /\ bw.pc \in {"returned", "raised"}
             => (bw.ws \in {"new", "failed", "closed"} /\ net.open = {})
          /\ (pc \notin {"cold", "warm", "run"} /\ fn # "benchmark_workflow"
              /\ after \notin {"interrupt", "interrupt_break"})
             => net.open = {})
    /\ [][(bw.pc = "connect" /\ bw'.pc \notin {"load", "connect"})
          => /\ bw'.client_id \notin 0..net.uuids
             /\ \A id \in net.open : FALSE
             /\ net'.uuids = bw'.client_id]_vars

WitC24 ==
    /\ prog = "benchmark_workflows" /\ pc = "warm" /\ bw.pc = "recv"
    /\ bw.ws = "open" /\ bw.client_id = 2 /\ net.open = {2}
    /\ started = 1 /\ posts = 2

\* C25: in both mains a server is started only when the process of the round
\* before has exited or was killed (or there was none); while a round waits,
\* measures or saves, its process is running with terminate() not yet
\* called; a POST is made only to such a process, and no call of
\* benchmark_workflow takes a step once terminate() was called.
ThmC25 ==
    /\ []((pc \in {"wait_for_server", "cold", "warm", "run", "save_open",
                   "save_dump"})
          => (process.state = "running" /\ process.terminate_calls = 0))
    /\ [][started' = started + 1
          => /\ process.state \in {"none", "exited", "killed"}
             /\ process'.state = "running"
             /\ process'.terminate_calls = 0]_vars
    /\ [][posts' = posts + 1
          => /\ process.state = "running" /\ process.terminate_calls = 0
             /\ process' = process]_vars
    /\ [][process.terminate_calls >= 1 => bw' \in {bw, bw_init}]_vars

WitC25 ==
    /\ prog = "collect_perf_logs" /\ pc = "run" /\ bw.pc = "posting"
    /\ started = 2 /\ process.state = "running"
    /\ process.terminate_calls = 0

\* C26: every record the result file held when a run of
\* benchmark_workflows.main started, whatever its status, stays where it was
\* in the in-memory records for the whole run, no second record of its pair
\* is added, no round is run for its pair, and every complete result file of
\* the run holds it unchanged.
ThmC26 ==
    (prog = "benchmark_workflows" /\ run >= 1
     /\ pc \notin {"idle", "killed"} /\ results_type = "list")
    => \A k \in 1..Len(Load(fileAtStart)) :
          LET r == Load(fileAtStart)[k]
          IN  /\ Len(results) >= k /\ results[k] = r
              /\ Count(results, KeyOf(r)) = 1
              /\ pc \in {"wait_for_server", "cold", "warm", "save_open",
                         "save_dump", "finally"}
                 => CurKey # KeyOf(r)
              /\ file.state = "list"
                 => (Len(file.recs) >= k /\ file.recs[k] = r)

WitC26 ==
    /\ prog = "benchmark_workflows" /\ run = 2 /\ pc = "finally"
    /\ saved = "ok" /\ started = 1
    /\ Len(fileAtStart.recs) = 1
    /\ fileAtStart.recs[1].workflow = "a.json"
    /\ fileAtStart.recs[1].status = "failure"
    /\ Len(file.recs) = 2 /\ file.recs[1] = fileAtStart.recs[1]
    /\ file.recs[2].workflow = "b.json"

====
